---------------------------- MODULE Spec2Model ----------------------------
(***************************************************************************)
(* The sequential tool-calling loop of backend/ai_generator.py             *)
(* (AIGenerator.generate_response, _execute_tools, _make_final_response),  *)
(* together with the tool registry and the caller that drains the          *)
(* citation sources after each answered query.                             *)
(*                                                                         *)
(* One run of generate_response is a sequence of steps, cut at the         *)
(* blocking calls the code makes: each call of client.messages.create and  *)
(* each call of tool_manager.execute_tool is one step.  The LLM provider   *)
(* is the environment: every call either raises or returns a response      *)
(* (stop_reason, content blocks) drawn from a bounded set.                 *)
(***************************************************************************)
EXTENDS Integers, Sequences, FiniteSets, TLC

\* ---------------------------------------------------------------- bounds
\* Largest round cap (max_tool_rounds) a caller passes.
MaxCap == 2
\* Largest number of content blocks in one model response.
MaxBlocks == 2
\* Largest number of tool_use blocks the model emits during one run.
MaxToolCalls == 2
\* Number of queries served one after the other on the same registry.
MaxRuns == 2

VARIABLES
    pc,            \* "idle" | "awaiting" | "executing" | "done"
    cap,           \* max_tool_rounds of the current run
    tools,         \* TRUE iff the `tools` argument is a non-empty menu
    tool_manager,  \* TRUE iff a tool manager (registry) was supplied
    round_num,     \* rounds of the for-loop completed so far
    messages,      \* the conversation of the current run
    response,      \* the response of the last LLM call
    idx,           \* _execute_tools: next content block to look at
    tool_results,  \* _execute_tools: results collected in this round
    outcome,       \* "none" | "returned" | "raised"
    answer,        \* the string returned by generate_response
    calls,         \* the keyword arguments of every messages.create call
    replies,       \* what the provider answered to each of those calls
    toolLog,       \* every execute_tool call of the run, in order
    last_sources,  \* registry: tool name -> that tool's last_sources slot
    sources,       \* the source list handed to the caller of the last query
    runs,          \* queries started so far
    conversation_history,  \* the conversation_history argument of the run
    last_call,     \* tool layer: the last step made on a tool or the registry
    generator,     \* self: the generator's model and base_params
    caller_params, \* _handle_tool_execution: the base_params argument
    queries,       \* concurrent queries: query -> its position and sources
    serialized     \* TRUE iff the queries are served one at a time

vars == <<pc, cap, tools, tool_manager, round_num, messages, response, idx,
          tool_results, outcome, answer, calls, replies, toolLog,
          last_sources, sources, runs, conversation_history, last_call,
          generator, caller_params, queries, serialized>>

\* ------------------------------------------------------------ data model
NoValue == "<none>"
Query == "user query"

ToolFailed == "Tool execution failed"
NoResponseText == "No response"
\* (variant: the except clause returns str(e) alone)
FinalErrorPrefix_Bare == ""
FinalErrorPrefix == "Error generating final response: "

\* The text of the block at position p of the n-th response of a run, and the
\* identifier the provider gives the tool-use block at that position: opaque
\* to the code, distinct for distinct blocks.
TextOf(n, p) == "text " \o ToString(n) \o "." \o ToString(p)
IdOf(n, p) == "toolu_" \o ToString(n) \o "_" \o ToString(p)

TextBlock(n, p) ==
    [type |-> "text", text |-> TextOf(n, p), name |-> NoValue,
     id |-> NoValue, input |-> NoValue]
ToolUseBlock(n, p, nm, inp) ==
    [type |-> "tool_use", text |-> NoValue, name |-> nm,
     id |-> IdOf(n, p), input |-> inp]

\* content_block.text exists on text blocks only; on any other block the
\* attribute access raises AttributeError.
HasText(b) == b.type = "text"

SearchTool == "search_course_content"
OutlineTool == "get_course_outline"
UnknownTool == "no_such_tool"

\* What the model may put in a tool-use block: a tool name and the keyword
\* arguments.  "query=rag" is a well-formed content-search call,
\* "course_name=MCP" a well-formed outline call.
GoodQuery == "query=rag"
GoodCourse == "course_name=MCP"
ToolChoices ==
    { <<SearchTool, GoodQuery>>, <<SearchTool, GoodCourse>>,
      <<OutlineTool, GoodCourse>>, <<UnknownTool, GoodQuery>> }

BlocksAt(n, p) ==
    {TextBlock(n, p)} \cup {ToolUseBlock(n, p, c[1], c[2]) : c \in ToolChoices}

RECURSIVE ContentsOfLen(_, _)
ContentsOfLen(n, len) ==
    IF len = 0 THEN {<<>>}
    ELSE {Append(s, b) : s \in ContentsOfLen(n, len - 1), b \in BlocksAt(n, len)}

Contents(n) == UNION {ContentsOfLen(n, len) : len \in 0..MaxBlocks}

ToolUseCount(content) ==
    Cardinality({i \in 1..Len(content) : content[i].type = "tool_use"})

StopReasons == {"tool_use", "end_turn"}

\* The responses the provider can give to the n-th call when `budget`
\* tool-use blocks are still allowed in this run.
Responses(n, budget) ==
    {[stop_reason |-> s, content |-> c] :
        s \in StopReasons,
        c \in {cc \in Contents(n) : ToolUseCount(cc) <= budget}}

NoResponse == [stop_reason |-> "none", content |-> <<>>]

\* No step has been made on a tool or the registry yet.
NoCall == [kind |-> "none"]

\* ---------------------------------------------------------- tool registry
\* The registry holds the two tools in registration order.
Registered == <<SearchTool, OutlineTool>>
RegisteredNames == {Registered[i] : i \in 1..Len(Registered)}

EmptySlots == [t \in RegisteredNames |-> <<>>]

\* Content search: the retrieval provider's answer to the well-formed query is
\* one matched snippet of course "MCP", lesson 1, whose lesson link resolves.
SearchHitText == "[MCP - Lesson 1]\nsnippet"
SearchHitSources == <<"MCP - Lesson 1|LINK:https://example.com/lesson1">>
OutlineText == "Course: MCP"

ToolNotFound(nm) == "Tool '" \o nm \o "' not found"

\* (variant: dispatch raises on a name that is not registered)
execute_tool_RaisesOnUnknown(nm, inp, slots) ==
    IF nm \notin RegisteredNames
    THEN [raised |-> TRUE, text |-> NoValue, slots |-> slots]
    ELSE IF nm = SearchTool
    THEN IF inp = GoodQuery
         THEN [raised |-> FALSE, text |-> SearchHitText,
               slots |-> [slots EXCEPT ![SearchTool] = SearchHitSources]]
         ELSE [raised |-> TRUE, text |-> NoValue, slots |-> slots]
    ELSE IF inp = GoodCourse
         THEN [raised |-> FALSE, text |-> OutlineText, slots |-> slots]
         ELSE [raised |-> TRUE, text |-> NoValue, slots |-> slots]
\* dispatch(name, args): the outcome of tool_manager.execute_tool(name, **args)
\* with the source slots `slots` before the call.  A call whose keyword
\* arguments do not fit the tool's execute signature raises (TypeError).
execute_tool(nm, inp, slots) ==
    IF nm \notin RegisteredNames
    THEN [raised |-> FALSE, text |-> ToolNotFound(nm), slots |-> slots]
    ELSE IF nm = SearchTool
    THEN IF inp = GoodQuery
         THEN [raised |-> FALSE, text |-> SearchHitText,
               slots |-> [slots EXCEPT ![SearchTool] = SearchHitSources]]
         ELSE [raised |-> TRUE, text |-> NoValue, slots |-> slots]
    ELSE IF inp = GoodCourse
         THEN [raised |-> FALSE, text |-> OutlineText, slots |-> slots]
         ELSE [raised |-> TRUE, text |-> NoValue, slots |-> slots]

RECURSIVE ConcatSlots(_, _)
ConcatSlots(slots, i) ==
    IF i > Len(Registered) THEN <<>>
    ELSE slots[Registered[i]] \o ConcatSlots(slots, i + 1)

\* (variant: only the first source is returned)
drain_sources_FirstOnly(slots) ==
    IF ConcatSlots(slots, 1) = <<>> THEN <<>> ELSE <<ConcatSlots(slots, 1)[1]>>
\* drain_sources(): the slots of all registered tools, in registration order.
drain_sources(slots) == ConcatSlots(slots, 1)

\* (variant: the reset leaves the slots as they are)
reset_sources_Keeps(slots) == slots
\* reset_sources(): every slot empty.
reset_sources(slots) == [t \in DOMAIN slots |-> <<>>]

\* ------------------------------------------------------------- generator
\* The model id the generator is constructed with, and the two fixed base
\* parameters.
ModelId == "claude-sonnet-4-20250514"
Temperature == 0
MaxOutputTokens == 800

\* (variant: the base parameters are built with the provider's default
\* temperature)
NewGenerator_DefaultTemperature(model) ==
    [model |-> model,
     base_params |-> [model |-> model, temperature |-> 1,
                      max_tokens |-> MaxOutputTokens]]
\* AIGenerator(api_key, model): self.model and the pre-built self.base_params.
NewGenerator(model) ==
    [model |-> model,
     base_params |-> [model |-> model, temperature |-> Temperature,
                      max_tokens |-> MaxOutputTokens]]

\* _handle_tool_execution has not been entered.
NoCallerParams == [messages |-> <<>>, system |-> NoValue]

\* The queries that may be in progress on one registry at the same time.
Queries == {1, 2}
NewQueries == [q \in Queries |-> [pc |-> "idle", executed |-> 0, drained |-> <<>>]]

\* ------------------------------------------------------------------ Init
Init ==
    /\ pc = "idle"
    /\ cap = 0
    /\ tools = FALSE
    /\ tool_manager = FALSE
    /\ round_num = 0
    /\ messages = <<>>
    /\ response = NoResponse
    /\ idx = 0
    /\ tool_results = <<>>
    /\ outcome = "none"
    /\ answer = NoValue
    /\ calls = <<>>
    /\ replies = <<>>
    /\ toolLog = <<>>
    /\ last_sources = EmptySlots
    /\ sources = <<>>
    /\ runs = 0
    /\ conversation_history = NoValue
    /\ last_call = NoCall
    /\ generator = NewGenerator(ModelId)
    /\ caller_params = NoCallerParams
    /\ queries = NewQueries
    /\ serialized = TRUE

\* --------------------------------------------------------------- actions
UserTurn(content) == [role |-> "user", content |-> content]
\* (variant: the model's blocks are appended as a user turn)
AssistantTurn_AsUser(content) == [role |-> "user", content |-> content]
AssistantTurn(content) == [role |-> "assistant", content |-> content]

\* generate_response is entered with conversation_history = h:
\* messages = [{"role": "user", "content": query}].
StartWith(h) ==
    /\ pc = "idle"
    /\ runs < MaxRuns
    /\ \E c \in 0..MaxCap, t \in BOOLEAN, m \in BOOLEAN :
        /\ cap' = c
        /\ tools' = t
        /\ tool_manager' = m
    /\ pc' = "awaiting"
    /\ round_num' = 0
    /\ messages' = <<UserTurn(Query)>>
    /\ response' = NoResponse
    /\ idx' = 0
    /\ tool_results' = <<>>
    /\ outcome' = "none"
    /\ answer' = NoValue
    /\ calls' = <<>>
    /\ replies' = <<>>
    /\ toolLog' = <<>>
    /\ sources' = <<>>
    /\ runs' = runs + 1
    /\ conversation_history' = h
    /\ UNCHANGED <<last_sources, last_call, generator, caller_params, queries,
                   serialized>>

\* A query without conversation history (the history only enters the system
\* text of the calls, not the control flow).
Start == StartWith(NoValue)

\* The static system prompt, and the conversation histories a caller passes:
\* none, an empty string, a non-empty summary.
SYSTEM_PROMPT == "SYSTEM_PROMPT"
Summary == "User: hi\nAssistant: hello"
Histories == {NoValue, "", Summary}

\* (variant: the history section is added whenever a string was passed)
HistoryGiven_NotNone(h) == h # NoValue
\* `if conversation_history`: None and the empty string are both false.
HistoryGiven(h) == h \notin {NoValue, ""}

\* system_content, built once before the loop.
system_content ==
    IF HistoryGiven(conversation_history)
    THEN SYSTEM_PROMPT \o "\n\nPrevious conversation:\n" \o conversation_history
    ELSE SYSTEM_PROMPT

\* (variant: the model is forced to call some tool, tool_choice "any")
LoopParams_Forced(msgs, hasTools) ==
    [model |-> generator.base_params.model,
     temperature |-> generator.base_params.temperature,
     max_tokens |-> generator.base_params.max_tokens,
     messages |-> msgs, system |-> system_content, tools |-> hasTools,
     tool_choice |-> IF hasTools THEN "any" ELSE NoValue, final |-> FALSE]
\* The keyword arguments of an in-loop messages.create call.
LoopParams(msgs, hasTools) ==
    [model |-> generator.base_params.model,
     temperature |-> generator.base_params.temperature,
     max_tokens |-> generator.base_params.max_tokens,
     messages |-> msgs, system |-> system_content, tools |-> hasTools,
     tool_choice |-> IF hasTools THEN "auto" ELSE NoValue, final |-> FALSE]

\* (variant: the final call drops the menu but keeps tool_choice)
FinalParams_AutoChoice(msgs) ==
    [model |-> generator.base_params.model,
     temperature |-> generator.base_params.temperature,
     max_tokens |-> generator.base_params.max_tokens,
     messages |-> msgs, system |-> system_content, tools |-> FALSE,
     tool_choice |-> "auto", final |-> TRUE]
\* (variant: the final call still carries the tool menu)
FinalParams_WithTools(msgs) ==
    [model |-> generator.base_params.model,
     temperature |-> generator.base_params.temperature,
     max_tokens |-> generator.base_params.max_tokens,
     messages |-> msgs, system |-> system_content, tools |-> tools,
     tool_choice |-> IF tools THEN "auto" ELSE NoValue, final |-> TRUE]
\* The keyword arguments of the call made by _make_final_response.
FinalParams(msgs) ==
    [model |-> generator.base_params.model,
     temperature |-> generator.base_params.temperature,
     max_tokens |-> generator.base_params.max_tokens,
     messages |-> msgs, system |-> system_content, tools |-> FALSE,
     tool_choice |-> NoValue, final |-> TRUE]

\* tool-use blocks the model has emitted so far in this run
RECURSIVE EmittedToolUses(_, _)
EmittedToolUses(msgs, i) ==
    IF i > Len(msgs) THEN 0
    ELSE (IF msgs[i].role = "assistant" THEN ToolUseCount(msgs[i].content) ELSE 0)
         + EmittedToolUses(msgs, i + 1)

Budget == MaxToolCalls - EmittedToolUses(messages, 1)

Finish(how, text) ==
    /\ pc' = "done"
    /\ outcome' = how
    /\ answer' = text

\* response.content[0].text: IndexError on an empty content, AttributeError on
\* a first block that has no text.
FirstTextReadable(r) == Len(r.content) > 0 /\ HasText(r.content[1])

\* (variant: the loop goes on for as long as the model asks for tools)
InLoop_WhileToolsWanted == TRUE
\* (variant: the loop runs one iteration too many, range(max_tool_rounds + 1))
InLoop_OneMore == round_num <= cap
\* for round_num in range(max_tool_rounds): another iteration is due ...
InLoop == round_num < cap
\* (variant: the code after the loop is not reached when the range ends)
LoopExhausted_Never == round_num > cap
\* ... or the range is exhausted and the code after the loop runs.
LoopExhausted == round_num >= cap

\* (variant: the test looks at the content blocks, not at the stop reason)
WantsTools_ByContent(r) == ToolUseCount(r.content) > 0
\* response.stop_reason != "tool_use" ends the run with a direct answer.
WantsTools(r) == r.stop_reason = "tool_use"

\* (variant: a tool-result turn replaces everything after the query)
AppendTurn_Truncating(msgs, turn) ==
    IF turn.role = "user" THEN <<msgs[1], turn>> ELSE Append(msgs, turn)
\* messages.append(turn)
AppendTurn(msgs, turn) == Append(msgs, turn)

\* What the provider did on one call: it raised, or it returned r.
Raised == [raised |-> TRUE, stop_reason |-> "none", content |-> <<>>]
Returned(r) == [raised |-> FALSE, stop_reason |-> r.stop_reason, content |-> r.content]

\* One iteration of the for-loop up to the point where tools are executed:
\* the LLM call and the termination checks that follow it.
CallModel ==
    /\ pc = "awaiting"
    /\ InLoop
    /\ calls' = Append(calls, LoopParams(messages, tools))
    /\ \/ \* messages.create raises: not caught, the run raises
          /\ response' = NoResponse
          /\ replies' = Append(replies, Raised)
          /\ Finish("raised", NoValue)
          /\ UNCHANGED <<messages, idx, tool_results>>
       \/ \E r \in Responses(Len(calls) + 1, Budget) :
          /\ response' = r
          /\ replies' = Append(replies, Returned(r))
          /\ IF ~WantsTools(r)
             THEN /\ IF FirstTextReadable(r)
                     THEN Finish("returned", r.content[1].text)
                     ELSE Finish("raised", NoValue)
                  /\ UNCHANGED <<messages, idx, tool_results>>
             ELSE IF ~tool_manager
             THEN /\ IF Len(r.content) = 0
                     THEN Finish("returned", NoResponseText)
                     ELSE IF HasText(r.content[1])
                     THEN Finish("returned", r.content[1].text)
                     ELSE Finish("raised", NoValue)
                  /\ UNCHANGED <<messages, idx, tool_results>>
             ELSE /\ messages' = AppendTurn(messages, AssistantTurn(r.content))
                  /\ pc' = "executing"
                  /\ idx' = 1
                  /\ tool_results' = <<>>
                  /\ UNCHANGED <<outcome, answer>>
    /\ UNCHANGED <<cap, tools, tool_manager, round_num, toolLog, last_sources,
                   sources, runs, conversation_history, last_call,
                   generator, caller_params, queries, serialized>>

\* (variant: every block is taken for a tool call, whatever its type)
ToolUsePositions_AnyBlock(content, i) == i..Len(content)
\* Positions of the tool-use blocks of a content, at or after position i.
ToolUsePositions(content, i) ==
    {p \in i..Len(content) : content[p].type = "tool_use"}

Min(S) == CHOOSE x \in S : \A y \in S : x <= y
Max(S) == CHOOSE x \in S : \A y \in S : x >= y

\* (variant: only the last tool-use block of a response is executed)
NextToolUse_Last(content, i) == Max(ToolUsePositions(content, i))
\* for content_block in response.content: the next tool-use block at or after i
NextToolUse(content, i) == Min(ToolUsePositions(content, i))

\* (variant: the string the tool returned is dropped from the result)
ToolResult_Blank(b, text) ==
    [type |-> "tool_result", tool_use_id |-> b.id, content |-> ""]
\* (variant: the result is tagged with the tool's name instead of the call id)
ToolResult_NameAsId(b, text) ==
    [type |-> "tool_result", tool_use_id |-> b.name, content |-> text]
\* tool_results.append({"type": "tool_result", "tool_use_id": ..., "content": ...})
ToolResult(b, text) ==
    [type |-> "tool_result", tool_use_id |-> b.id, content |-> text]

\* (variant: an exception undoes what the round's earlier calls recorded)
ExecuteTool_UndoesRound ==
    /\ pc = "executing"
    /\ ToolUsePositions(response.content, idx) # {}
    /\ LET p == NextToolUse(response.content, idx)
           b == response.content[p]
           res == execute_tool(b.name, b.input, last_sources)
       IN  /\ toolLog' = Append(toolLog,
                  [name |-> b.name, input |-> b.input, id |-> b.id,
                   round |-> round_num + 1, pos |-> p, llm |-> Len(calls),
                   raised |-> res.raised, result |-> res.text])
           /\ IF res.raised
              THEN /\ tool_results' = <<>>
                   /\ idx' = Len(response.content) + 1
                   /\ last_sources' = EmptySlots
              ELSE /\ tool_results' = Append(tool_results, ToolResult(b, res.text))
                   /\ idx' = p + 1
                   /\ last_sources' = res.slots
    /\ UNCHANGED <<pc, cap, tools, tool_manager, round_num, messages, response,
                   outcome, answer, calls, replies, sources, runs,
                   conversation_history, last_call,
                   generator, caller_params, queries, serialized>>
\* (variant: every call is dispatched to the content-search tool)
ExecuteTool_AlwaysSearch ==
    /\ pc = "executing"
    /\ ToolUsePositions(response.content, idx) # {}
    /\ LET p == NextToolUse(response.content, idx)
           b == response.content[p]
           res == execute_tool(SearchTool, b.input, last_sources)
       IN  /\ toolLog' = Append(toolLog,
                  [name |-> SearchTool, input |-> b.input, id |-> b.id,
                   round |-> round_num + 1, pos |-> p, llm |-> Len(calls),
                   raised |-> res.raised, result |-> res.text])
           /\ last_sources' = res.slots
           /\ IF res.raised
              THEN /\ tool_results' = <<>>
                   /\ idx' = Len(response.content) + 1
              ELSE /\ tool_results' = Append(tool_results, ToolResult(b, res.text))
                   /\ idx' = p + 1
    /\ UNCHANGED <<pc, cap, tools, tool_manager, round_num, messages, response,
                   outcome, answer, calls, replies, sources, runs,
                   conversation_history, last_call,
                   generator, caller_params, queries, serialized>>
\* (variant: a raising tool call is skipped and the other results are kept)
ExecuteTool_SkipsFailure ==
    /\ pc = "executing"
    /\ ToolUsePositions(response.content, idx) # {}
    /\ LET p == NextToolUse(response.content, idx)
           b == response.content[p]
           res == execute_tool(b.name, b.input, last_sources)
       IN  /\ toolLog' = Append(toolLog,
                  [name |-> b.name, input |-> b.input, id |-> b.id,
                   round |-> round_num + 1, pos |-> p, llm |-> Len(calls),
                   raised |-> res.raised, result |-> res.text])
           /\ last_sources' = res.slots
           /\ idx' = p + 1
           /\ IF res.raised
              THEN tool_results' = tool_results
              ELSE tool_results' = Append(tool_results, ToolResult(b, res.text))
    /\ UNCHANGED <<pc, cap, tools, tool_manager, round_num, messages, response,
                   outcome, answer, calls, replies, sources, runs,
                   conversation_history, last_call,
                   generator, caller_params, queries, serialized>>
\* _execute_tools: the loop advances to the next tool-use block and calls
\* execute_tool for it.  An exception ends the loop with no results at all.
ExecuteTool ==
    /\ pc = "executing"
    /\ ToolUsePositions(response.content, idx) # {}
    /\ LET p == NextToolUse(response.content, idx)
           b == response.content[p]
           res == execute_tool(b.name, b.input, last_sources)
       IN  /\ toolLog' = Append(toolLog,
                  [name |-> b.name, input |-> b.input, id |-> b.id,
                   round |-> round_num + 1, pos |-> p, llm |-> Len(calls),
                   raised |-> res.raised, result |-> res.text])
           /\ last_sources' = res.slots
           /\ IF res.raised
              THEN /\ tool_results' = <<>>
                   /\ idx' = Len(response.content) + 1
              ELSE /\ tool_results' = Append(tool_results, ToolResult(b, res.text))
                   /\ idx' = p + 1
    /\ UNCHANGED <<pc, cap, tools, tool_manager, round_num, messages, response,
                   outcome, answer, calls, replies, sources, runs,
                   conversation_history, last_call,
                   generator, caller_params, queries, serialized>>

\* (variant: an empty result list is forwarded like any other)
FinishRound_AlwaysContinues ==
    /\ pc = "executing"
    /\ ToolUsePositions(response.content, idx) = {}
    /\ messages' = AppendTurn(messages, UserTurn(tool_results))
    /\ round_num' = round_num + 1
    /\ pc' = "awaiting"
    /\ UNCHANGED <<cap, tools, tool_manager, response, idx, tool_results, calls,
                   replies, toolLog, last_sources, sources, runs, outcome, answer,
                   conversation_history, last_call,
                   generator, caller_params, queries, serialized>>
\* _execute_tools has returned: no results abort the run, otherwise the
\* combined tool-result turn is appended and the next round begins.
FinishRound ==
    /\ pc = "executing"
    /\ ToolUsePositions(response.content, idx) = {}
    /\ IF tool_results = <<>>
       THEN /\ Finish("returned", ToolFailed)
            /\ UNCHANGED <<messages, round_num>>
       ELSE /\ messages' = AppendTurn(messages, UserTurn(tool_results))
            /\ round_num' = round_num + 1
            /\ pc' = "awaiting"
            /\ UNCHANGED <<outcome, answer>>
    /\ UNCHANGED <<cap, tools, tool_manager, response, idx, tool_results, calls,
                   replies, toolLog, last_sources, sources, runs,
                   conversation_history, last_call,
                   generator, caller_params, queries, serialized>>

\* str(e) of what the try block of _make_final_response can catch.
ProviderErrorText == "provider error"
IndexErrorText == "list index out of range"
AttributeErrorText == "'ToolUseBlock' object has no attribute 'text'"

\* (variant: the answer is taken from the last content block)
FinalText_LastBlock(r) ==
    IF Len(r.content) > 0 /\ HasText(r.content[Len(r.content)])
    THEN r.content[Len(r.content)].text
    ELSE IF Len(r.content) = 0
    THEN FinalErrorPrefix \o IndexErrorText
    ELSE FinalErrorPrefix \o AttributeErrorText
\* _make_final_response: final_response.content[0].text, or the diagnostic
\* string built by the except clause.
FinalText(r) ==
    IF FirstTextReadable(r)
    THEN r.content[1].text
    ELSE IF Len(r.content) = 0
    THEN FinalErrorPrefix \o IndexErrorText
    ELSE FinalErrorPrefix \o AttributeErrorText

\* (variant: the final call is made outside any try block, like line 98)
FinalCall_Propagates ==
    /\ pc = "awaiting"
    /\ LoopExhausted
    /\ calls' = Append(calls, FinalParams(messages))
    /\ \/ /\ response' = NoResponse
          /\ replies' = Append(replies, Raised)
          /\ Finish("raised", NoValue)
       \/ \E r \in Responses(Len(calls) + 1, Budget) :
          /\ response' = r
          /\ replies' = Append(replies, Returned(r))
          /\ IF FirstTextReadable(r)
             THEN Finish("returned", r.content[1].text)
             ELSE Finish("raised", NoValue)
    /\ UNCHANGED <<cap, tools, tool_manager, round_num, messages, idx,
                   tool_results, toolLog, last_sources, sources, runs,
                   conversation_history, last_call,
                   generator, caller_params, queries, serialized>>
\* The for-loop is exhausted: _make_final_response, one call without tools.
\* Everything raised inside its try block becomes a diagnostic string.
FinalCall ==
    /\ pc = "awaiting"
    /\ LoopExhausted
    /\ calls' = Append(calls, FinalParams(messages))
    /\ \/ /\ response' = NoResponse
          /\ replies' = Append(replies, Raised)
          /\ Finish("returned", FinalErrorPrefix \o ProviderErrorText)
       \/ \E r \in Responses(Len(calls) + 1, Budget) :
          /\ response' = r
          /\ replies' = Append(replies, Returned(r))
          /\ Finish("returned", FinalText(r))
    /\ UNCHANGED <<cap, tools, tool_manager, round_num, messages, idx,
                   tool_results, toolLog, last_sources, sources, runs,
                   conversation_history, last_call,
                   generator, caller_params, queries, serialized>>

\* The caller of generate_response: after the run has returned it drains the
\* registry's sources and resets them; a run that raised propagates and
\* nothing is drained.
Return ==
    /\ pc = "done"
    /\ pc' = "idle"
    /\ IF outcome = "returned" /\ tool_manager
       THEN /\ sources' = drain_sources(last_sources)
            /\ last_sources' = reset_sources(last_sources)
       ELSE /\ sources' = <<>>
            /\ UNCHANGED last_sources
    /\ UNCHANGED <<cap, tools, tool_manager, round_num, messages, response, idx,
                   tool_results, outcome, answer, calls, replies, toolLog, runs,
                   conversation_history, last_call,
                   generator, caller_params, queries, serialized>>

Next ==
    \/ Start
    \/ CallModel
    \/ ExecuteTool
    \/ FinishRound
    \/ FinalCall
    \/ Return

Spec == Init /\ [][Next]_vars

\* Every blocking call returns or raises, so a run that can take a step of its
\* own does take it.  Whether another query is started is up to the caller.
\* One query on a fresh registry.
FirstStart == runs = 0 /\ Start

OneRun ==
    \/ FirstStart
    \/ CallModel
    \/ ExecuteTool
    \/ FinishRound
    \/ FinalCall
    \/ Return

LiveSpec ==
    /\ Init
    /\ [][OneRun]_vars
    /\ WF_vars(CallModel)
    /\ WF_vars(ExecuteTool)
    /\ WF_vars(FinishRound)
    /\ WF_vars(FinalCall)

\* The round cap of a call that does not pass max_tool_rounds.
DefaultCap == 2

\* answer(query): the application layer calls generate_response with the
\* registry's tool menu and the registry itself, and leaves the cap at its
\* default.
StartAnswer ==
    /\ Start
    /\ cap' = DefaultCap
    /\ tools'
    /\ tool_manager'

AnswerNext ==
    \/ StartAnswer
    \/ CallModel
    \/ ExecuteTool
    \/ FinishRound
    \/ FinalCall
    \/ Return

\* Successive answer() invocations on one registry.
AnswerSpec == Init /\ [][AnswerNext]_vars

\* One query, with any conversation history the caller may pass.
HistoryStart ==
    /\ runs = 0
    /\ \E h \in Histories : StartWith(h)

HistoryNext ==
    \/ HistoryStart
    \/ CallModel
    \/ ExecuteTool
    \/ FinishRound
    \/ FinalCall
    \/ Return

HistorySpec == Init /\ [][HistoryNext]_vars

\* Round caps for which range(max_tool_rounds) is empty.
NonPositiveCaps == {-1, 0}

\* generate_response is entered with max_tool_rounds <= 0.
StartWithoutRounds ==
    /\ pc = "idle"
    /\ runs < MaxRuns
    /\ \E c \in NonPositiveCaps, t \in BOOLEAN, m \in BOOLEAN :
        /\ cap' = c
        /\ tools' = t
        /\ tool_manager' = m
    /\ pc' = "awaiting"
    /\ round_num' = 0
    /\ messages' = <<UserTurn(Query)>>
    /\ response' = NoResponse
    /\ idx' = 0
    /\ tool_results' = <<>>
    /\ outcome' = "none"
    /\ answer' = NoValue
    /\ calls' = <<>>
    /\ replies' = <<>>
    /\ toolLog' = <<>>
    /\ sources' = <<>>
    /\ runs' = runs + 1
    /\ UNCHANGED <<last_sources, conversation_history, last_call, generator,
                   caller_params, queries, serialized>>

\* With such a cap the loop body is never entered: the only steps are the
\* final call and the return to the caller.
WithoutRoundsNext ==
    \/ StartWithoutRounds
    \/ FinalCall
    \/ Return

WithoutRoundsSpec == Init /\ [][WithoutRoundsNext]_vars

\* ------------------------------------------------------- legacy handler
\* _handle_tool_execution(initial_response, base_params, tool_manager): one
\* round of tools for a response the caller already has, then the final call.

\* The base_params the caller passes: its conversation and its system text.
CallerParams == [messages |-> <<UserTurn(Query)>>, system |-> SYSTEM_PROMPT]

\* The responses the caller may hand over (any stop reason, any blocks).
InitialResponses == Responses(0, MaxToolCalls)

LegacyEnter(r, params, local) ==
    /\ pc = "idle"
    /\ runs = 0
    /\ caller_params' = params
    /\ messages' = local
    /\ response' = r
    /\ pc' = "executing"
    /\ idx' = 1
    /\ tool_results' = <<>>
    /\ tool_manager' = TRUE
    /\ runs' = runs + 1
    /\ UNCHANGED <<cap, tools, round_num, outcome, answer, calls, replies,
                   toolLog, last_sources, sources, conversation_history,
                   last_call, generator, queries, serialized>>

\* (variant: the handler appends to the caller's list itself, no copy)
LegacyStart_NoCopy ==
    \E r \in InitialResponses :
        LegacyEnter(r,
            [CallerParams EXCEPT
                !.messages = AppendTurn(@, AssistantTurn(r.content))],
            AppendTurn(CallerParams.messages, AssistantTurn(r.content)))
\* messages = base_params["messages"].copy(), then the assistant turn is
\* appended to the copy; _execute_tools begins.
LegacyStart ==
    \E r \in InitialResponses :
        LegacyEnter(r, CallerParams,
            AppendTurn(CallerParams.messages, AssistantTurn(r.content)))

\* _execute_tools has returned: no results end the handler, otherwise the
\* tool-result turn is appended to the local conversation.
LegacyFinishRound ==
    /\ pc = "executing"
    /\ ToolUsePositions(response.content, idx) = {}
    /\ IF tool_results = <<>>
       THEN /\ Finish("returned", ToolFailed)
            /\ UNCHANGED messages
       ELSE /\ messages' = AppendTurn(messages, UserTurn(tool_results))
            /\ pc' = "awaiting"
            /\ UNCHANGED <<outcome, answer>>
    /\ UNCHANGED <<cap, tools, tool_manager, round_num, response, idx,
                   tool_results, calls, replies, toolLog, last_sources, sources,
                   runs, conversation_history, last_call, generator,
                   caller_params, queries, serialized>>

\* _make_final_response(messages, base_params["system"])
LegacyFinalCall ==
    /\ pc = "awaiting"
    /\ calls' = Append(calls,
            [FinalParams(messages) EXCEPT !.system = caller_params.system])
    /\ \/ /\ response' = NoResponse
          /\ replies' = Append(replies, Raised)
          /\ Finish("returned", FinalErrorPrefix \o ProviderErrorText)
       \/ \E r \in Responses(Len(calls) + 1, Budget) :
          /\ response' = r
          /\ replies' = Append(replies, Returned(r))
          /\ Finish("returned", FinalText(r))
    /\ UNCHANGED <<cap, tools, tool_manager, round_num, messages, idx,
                   tool_results, toolLog, last_sources, sources, runs,
                   conversation_history, last_call, generator, caller_params,
                   queries, serialized>>

LegacyNext ==
    \/ LegacyStart
    \/ ExecuteTool
    \/ LegacyFinishRound
    \/ LegacyFinalCall

LegacySpec == Init /\ [][LegacyNext]_vars

\* ----------------------------------------------------- concurrent queries
\* Two queries served on one registry.  Of a query only its steps on the
\* registry matter here: each content search it makes during its tool rounds
\* overwrites the search tool's slot with the sources of that query, and
\* after its answer the caller drains the slots and then resets them (two
\* calls on the registry).  Without serialization the steps of the two
\* queries interleave freely.

\* The sources a content search of query q records (the two queries ask about
\* different lessons).
QuerySources(q) ==
    IF q = 1 THEN SearchHitSources ELSE <<"MCP - Lesson 3">>

\* (variant: a query is admitted while another one is in progress)
MayEnter_Unlocked(q) == TRUE
\* External serialization: a query is admitted only when no other query is
\* between its start and its reset.
MayEnter(q) ==
    serialized => \A o \in Queries \ {q} : queries[o].pc \in {"idle", "done"}

QueryStart(q) ==
    /\ queries[q].pc = "idle"
    /\ MayEnter(q)
    /\ queries' = [queries EXCEPT ![q].pc = "running"]
    /\ UNCHANGED last_sources

\* A content search of query q during one of its tool rounds.
QuerySearch(q) ==
    /\ queries[q].pc = "running"
    /\ queries[q].executed < MaxToolCalls
    /\ last_sources' = [last_sources EXCEPT ![SearchTool] = QuerySources(q)]
    /\ queries' = [queries EXCEPT ![q].executed = @ + 1]

\* The caller of query q collects the sources for its answer ...
QueryDrain(q) ==
    /\ queries[q].pc = "running"
    /\ queries' = [queries EXCEPT ![q].pc = "drained",
                                  ![q].drained = drain_sources(last_sources)]
    /\ UNCHANGED last_sources

\* ... and then resets the registry's slots.
QueryReset(q) ==
    /\ queries[q].pc = "drained"
    /\ last_sources' = reset_sources(last_sources)
    /\ queries' = [queries EXCEPT ![q].pc = "done"]

ConcurrentNext ==
    /\ \E q \in Queries :
        \/ QueryStart(q)
        \/ QuerySearch(q)
        \/ QueryDrain(q)
        \/ QueryReset(q)
    /\ UNCHANGED <<pc, cap, tools, tool_manager, round_num, messages, response,
                   idx, tool_results, outcome, answer, calls, replies, toolLog,
                   sources, runs, conversation_history, last_call, generator,
                   caller_params, serialized>>

\* The queries are either serialized by the caller or not.
ConcurrentInit ==
    \E b \in BOOLEAN :
        /\ serialized = b
        /\ pc = "idle" /\ cap = 0 /\ tools = FALSE /\ tool_manager = FALSE
        /\ round_num = 0 /\ messages = <<>> /\ response = NoResponse
        /\ idx = 0 /\ tool_results = <<>> /\ outcome = "none"
        /\ answer = NoValue /\ calls = <<>> /\ replies = <<>>
        /\ toolLog = <<>> /\ last_sources = EmptySlots /\ sources = <<>>
        /\ runs = 0 /\ conversation_history = NoValue /\ last_call = NoCall
        /\ generator = NewGenerator(ModelId)
        /\ caller_params = NoCallerParams
        /\ queries = NewQueries

ConcurrentSpec == ConcurrentInit /\ [][ConcurrentNext]_vars

\* ------------------------------------------------------------ tool layer
\* The content-search tool and the outline tool, called directly (as the tool
\* tests do) with every argument mapping and every answer of the retrieval
\* provider.  A string these tools build is kept as the sequence of its
\* segments, so that "starts with" and "contains" can be read off; Render
\* joins the segments into the string itself.
\* Largest number of snippets the retrieval provider returns for one search.
MaxMatches == 2

RECURSIVE Render(_)
Render(segs) == IF segs = <<>> THEN "" ELSE segs[1] \o Render(Tail(segs))

\* A snippet's metadata carries no lesson number (None).
NoLesson == 0

\* The snippets the provider can return: course "MCP", lesson 1 (whose link
\* resolves), lesson 3 (no link) or no lesson number.
Course == "MCP"
Snippet == "snippet"
Lessons == {NoLesson, 1, 3}
Matches == {[course |-> Course, lesson |-> l, doc |-> Snippet] : l \in Lessons}

RECURSIVE MatchesOfLen(_)
MatchesOfLen(len) ==
    IF len = 0 THEN {<<>>}
    ELSE {Append(s, m) : s \in MatchesOfLen(len - 1), m \in Matches}

\* SearchResults.empty(msg): an error text and no documents.
ProviderError == "Search error: Vector store unavailable"

\* What the retrieval provider answers to a search.
ProviderOutcomes ==
    {[error |-> ProviderError, matches |-> <<>>]}
    \cup {[error |-> NoValue, matches |-> ms] :
            ms \in UNION {MatchesOfLen(len) : len \in 0..MaxMatches}}

\* get_lesson_link(course, lesson): None unless the lesson has a link.
LessonLink(course, lesson) ==
    IF lesson = 1 THEN "https://example.com/lesson1" ELSE NoValue

\* The argument mappings of content-search calls: query (None stands for a
\* query that is not a string), optional course_name, optional lesson_number.
OtherCourse == "Nonexistent Course"
SearchArgs ==
    {[query |-> q, course_name |-> c, lesson_number |-> n] :
        q \in {"rag", NoValue}, c \in {NoValue, OtherCourse}, n \in {NoLesson, 5}}

\* (variant: the lesson segment is written for every snippet)
Header_AlwaysLesson(m) ==
    <<"[", m.course, " - Lesson ", ToString(m.lesson), "]">>
\* "[<course> - Lesson <n>]", the lesson segment left out without a number
Header(m) ==
    IF m.lesson # NoLesson
    THEN <<"[", m.course, " - Lesson ", ToString(m.lesson), "]">>
    ELSE <<"[", m.course, "]">>

\* one formatted snippet: the header, a newline, the snippet text
Block(m) == Header(m) \o <<"\n", m.doc>>

\* the blocks of all snippets, separated by a blank line
RECURSIVE FormatResults(_)
FormatResults(ms) ==
    IF ms = <<>> THEN <<>>
    ELSE IF Len(ms) = 1 THEN Block(ms[1])
    ELSE Block(ms[1]) \o <<"\n\n">> \o FormatResults(Tail(ms))

\* the display label of a snippet's source
Label(m) ==
    IF m.lesson # NoLesson
    THEN <<m.course, " - Lesson ", ToString(m.lesson)>>
    ELSE <<m.course>>

LinkDelimiter == "|LINK:"

\* "<label>|LINK:<url>"
Pack(label, url) == label \o <<LinkDelimiter>> \o url

\* the source string recorded for a snippet
SourceOf(m) ==
    IF LessonLink(m.course, m.lesson) # NoValue
    THEN Pack(Label(m), <<LessonLink(m.course, m.lesson)>>)
    ELSE Label(m)

\* one source per snippet, in the order of the snippets
SourcesOf(ms) == [i \in 1..Len(ms) |-> Render(SourceOf(ms[i]))]

\* (variant: only the course filter is echoed)
NoContentMessage_CourseOnly(args) ==
    <<"No relevant content found">>
    \o (IF args.course_name # NoValue
        THEN <<" in course '", args.course_name, "'">> ELSE <<>>)
    \o <<".">>
\* the "no content found" message, echoing the filters that were supplied
NoContentMessage(args) ==
    <<"No relevant content found">>
    \o (IF args.course_name # NoValue
        THEN <<" in course '", args.course_name, "'">> ELSE <<>>)
    \o (IF args.lesson_number # NoLesson
        THEN <<" in lesson ", ToString(args.lesson_number)>> ELSE <<>>)
    \o <<".">>

\* (variant: a provider error is reported in the tool's own words)
search_execute_RewordsError(args, out) ==
    IF args.query = NoValue
    THEN [raised |-> TRUE, text |-> <<>>, sources |-> <<>>]
    ELSE IF out.error # NoValue
    THEN [raised |-> FALSE, text |-> <<"Search failed">>, sources |-> <<>>]
    ELSE IF out.matches = <<>>
    THEN [raised |-> FALSE, text |-> NoContentMessage(args), sources |-> <<>>]
    ELSE [raised |-> FALSE, text |-> FormatResults(out.matches),
          sources |-> SourcesOf(out.matches)]
\* CourseSearchTool.execute(query, course_name, lesson_number) when the
\* provider answers `out`: the returned string and the sources recorded in
\* the tool's slot.  A query that is not a string raises.
search_execute(args, out) ==
    IF args.query = NoValue
    THEN [raised |-> TRUE, text |-> <<>>, sources |-> <<>>]
    ELSE IF out.error # NoValue
    THEN [raised |-> FALSE, text |-> <<out.error>>, sources |-> <<>>]
    ELSE IF out.matches = <<>>
    THEN [raised |-> FALSE, text |-> NoContentMessage(args), sources |-> <<>>]
    ELSE [raised |-> FALSE, text |-> FormatResults(out.matches),
          sources |-> SourcesOf(out.matches)]

\* The slot of the content-search tool holds sources of an earlier execution.
SlotFilled == last_sources[SearchTool] # <<>>

\* (variant: the slot is written only when snippets were formatted)
SearchExecute_WritesOnMatches ==
    /\ pc = "idle"
    /\ \E args \in SearchArgs, out \in ProviderOutcomes :
        LET res == search_execute(args, out)
        IN  /\ last_call' = [kind |-> "search", args |-> args, outcome |-> out,
                             raised |-> res.raised, result |-> res.text,
                             filled |-> SlotFilled]
            /\ last_sources' =
                IF res.raised \/ res.sources = <<>> THEN last_sources
                ELSE [last_sources EXCEPT ![SearchTool] = res.sources]
    /\ sources' = <<>>
    /\ UNCHANGED <<pc, cap, tools, tool_manager, round_num, messages, response,
                   idx, tool_results, outcome, answer, calls, replies, toolLog,
                   runs, conversation_history,
                   generator, caller_params, queries, serialized>>
\* A content search is executed (within a query: no source list has been
\* handed to its caller yet).
SearchExecute ==
    /\ pc = "idle"
    /\ \E args \in SearchArgs, out \in ProviderOutcomes :
        LET res == search_execute(args, out)
        IN  /\ last_call' = [kind |-> "search", args |-> args, outcome |-> out,
                             raised |-> res.raised, result |-> res.text,
                             filled |-> SlotFilled]
            /\ last_sources' =
                IF res.raised THEN last_sources
                ELSE [last_sources EXCEPT ![SearchTool] = res.sources]
    /\ sources' = <<>>
    /\ UNCHANGED <<pc, cap, tools, tool_manager, round_num, messages, response,
                   idx, tool_results, outcome, answer, calls, replies, toolLog,
                   runs, conversation_history,
                   generator, caller_params, queries, serialized>>

\* CourseOutlineTool.execute(course_name): the outline of a known course or a
\* not-found message; the outline tool records no sources.
OutlineArgs == {[course_name |-> c] : c \in {Course, OtherCourse}}
\* (variant: the outline tool cites the course it describes)
outline_execute_CitesCourse(args) ==
    IF args.course_name = Course
    THEN [raised |-> FALSE, text |-> <<"Course: ", Course>>,
          sources |-> <<Course>>]
    ELSE [raised |-> FALSE,
          text |-> <<"No course found matching '", args.course_name, "'">>,
          sources |-> <<>>]
\* CourseOutlineTool.execute: the outline text, and no source.
outline_execute(args) ==
    IF args.course_name = Course
    THEN [raised |-> FALSE, text |-> <<"Course: ", Course>>, sources |-> <<>>]
    ELSE [raised |-> FALSE,
          text |-> <<"No course found matching '", args.course_name, "'">>,
          sources |-> <<>>]

\* The outline tool is executed.
OutlineExecute ==
    /\ pc = "idle"
    /\ \E args \in OutlineArgs :
        LET res == outline_execute(args)
        IN  /\ last_call' = [kind |-> "outline", args |-> args,
                             raised |-> res.raised, result |-> res.text,
                             filled |-> SlotFilled]
            /\ last_sources' = [last_sources EXCEPT ![OutlineTool] = res.sources]
    /\ sources' = <<>>
    /\ UNCHANGED <<pc, cap, tools, tool_manager, round_num, messages, response,
                   idx, tool_results, outcome, answer, calls, replies, toolLog,
                   runs, conversation_history,
                   generator, caller_params, queries, serialized>>

\* The registry's sources are drained and then reset, as at the end of a query.
DrainAndReset ==
    /\ pc = "idle"
    /\ sources' = drain_sources(last_sources)
    /\ last_sources' = reset_sources(last_sources)
    /\ last_call' = [kind |-> "drain", before |-> last_sources,
                     again |-> (last_call.kind = "drain"),
                     previous |-> sources]
    /\ UNCHANGED <<pc, cap, tools, tool_manager, round_num, messages, response,
                   idx, tool_results, outcome, answer, calls, replies, toolLog,
                   runs, conversation_history,
                   generator, caller_params, queries, serialized>>

\* The labels and links of the records that are packed: the labels the
\* content search builds, and the label of a course whose title itself
\* contains the delimiter text.
DelimiterLabel == <<"Notes", LinkDelimiter, "draft">>
PackLabels == {Label(m) : m \in Matches} \cup {DelimiterLabel}
PackUrls == {<<LessonLink(Course, 1)>>}

DelimiterPositions(segs) == {i \in 1..Len(segs) : segs[i] = LinkDelimiter}

\* (variant: the link is taken from the delimiter on, delimiter included)
Unpack_KeepsDelimiter(segs) ==
    IF DelimiterPositions(segs) = {}
    THEN [label |-> segs, url |-> <<>>]
    ELSE [label |-> SubSeq(segs, 1, Min(DelimiterPositions(segs)) - 1),
          url |-> SubSeq(segs, Min(DelimiterPositions(segs)), Len(segs))]
\* The presentation layer parses the link out of a source string: the text
\* before the first delimiter is the label, the text after it the link.
Unpack(segs) ==
    IF DelimiterPositions(segs) = {}
    THEN [label |-> segs, url |-> <<>>]
    ELSE [label |-> SubSeq(segs, 1, Min(DelimiterPositions(segs)) - 1),
          url |-> SubSeq(segs, Min(DelimiterPositions(segs)) + 1, Len(segs))]

\* A record with a link is packed into a source string and parsed back.
PackUnpack ==
    /\ pc = "idle"
    /\ \E label \in PackLabels, url \in PackUrls :
        last_call' = [kind |-> "pack", label |-> label, url |-> url,
                      packed |-> Pack(label, url),
                      unpacked |-> Unpack(Pack(label, url))]
    /\ UNCHANGED <<pc, cap, tools, tool_manager, round_num, messages, response,
                   idx, tool_results, outcome, answer, calls, replies, toolLog,
                   last_sources, sources, runs, conversation_history,
                   generator, caller_params, queries, serialized>>

ToolNext ==
    \/ SearchExecute
    \/ OutlineExecute
    \/ DrainAndReset
    \/ PackUnpack

\* The tools and the registry, driven directly.
ToolSpec == Init /\ [][ToolNext]_vars

\* ------------------------------------------------------------ properties
RunOver == pc \in {"done", "idle"} /\ runs > 0
InRun == pc \in {"awaiting", "executing"}

\* The tool calls dispatched while round r was being executed.
RoundLog(r) == SelectSeq(toolLog, LAMBDA e : e.round = r)

\* Round r produced at least one tool result: the provider's r-th answer was
\* a tool-use stop, some tool was called for it and no call raised.
RoundYielded(r) ==
    /\ r <= Len(replies)
    /\ ~replies[r].raised
    /\ replies[r].stop_reason = "tool_use"
    /\ Len(RoundLog(r)) > 0
    /\ \A i \in 1..Len(RoundLog(r)) : ~RoundLog(r)[i].raised
    /\ Len(RoundLog(r)) = ToolUseCount(replies[r].content)

\* C1: every run of generate_response, whatever the cap, the responses and the
\* tool outcomes, eventually reaches the terminal DONE state.
C1_Terminates == [](InRun => <>(pc = "done"))

\* A run that went through all MaxCap rounds and the final call has ended.
C1_Witness == pc = "done" /\ cap = MaxCap /\ Len(calls) = cap + 1

\* C2: in every reachable state of a run with round cap `cap`, at most cap+1
\* LLM calls have been issued.
C2_CallsBounded == Len(calls) <= cap + 1

C2_Witness == cap = MaxCap /\ Len(calls) = cap + 1

\* The model asked for tools in every one of the cap rounds and every round
\* produced a result, with a tool manager supplied.
EveryRoundToolUse == tool_manager /\ \A r \in 1..cap : RoundYielded(r)

\* C3: when a tool manager is supplied and every one of the cap rounds is a
\* tool-use round that yields a result, the run makes exactly cap+1 LLM calls
\* and the last one carries neither `tools` nor `tool_choice`.
C3_CapPlusOneNoMenu ==
    (RunOver /\ EveryRoundToolUse) =>
        /\ Len(calls) = cap + 1
        /\ ~calls[cap + 1].tools
        /\ calls[cap + 1].tool_choice = NoValue

C3_Witness ==
    /\ pc = "done" /\ EveryRoundToolUse /\ tools /\ cap = MaxCap
    /\ Len(calls) = cap + 1

\* The provider's answers so far are k tool-use rounds that all executed,
\* followed by one answer whose stop condition is not tool-use.
ToolRoundsThenStop(k) ==
    /\ Len(replies) = k + 1
    /\ k <= cap
    /\ k > 0 => tool_manager
    /\ \A r \in 1..k : RoundYielded(r)
    /\ ~replies[k + 1].raised
    /\ replies[k + 1].stop_reason # "tool_use"

\* The rounds in which at least one tool was executed.
RoundsExecuted == {toolLog[i].round : i \in 1..Len(toolLog)}

\* C4: for every k <= cap, k tool-use rounds followed by a non-tool stop make
\* the run end with exactly k+1 LLM calls and exactly k rounds of tool
\* execution.
C4_KPlusOneCalls ==
    \A k \in 0..MaxCap :
        ToolRoundsThenStop(k) =>
            /\ RunOver
            /\ Len(calls) = k + 1
            /\ RoundsExecuted = 1..k

C4_Witness ==
    /\ pc = "done" /\ ToolRoundsThenStop(1) /\ cap = MaxCap
    /\ outcome = "returned"

\* The provider's first answer of the run has a non-tool stop condition.
FirstResponseStops ==
    /\ Len(replies) >= 1
    /\ ~replies[1].raised
    /\ replies[1].stop_reason # "tool_use"

\* The caller has received the answer and the source list of the query.
Answered == pc = "idle" /\ runs > 0 /\ outcome = "returned"

\* C5: a query whose first model response has a non-tool stop condition makes
\* exactly one LLM call, executes no tool, and the source list returned to the
\* caller for it is empty.
C5_DirectAnswer ==
    FirstResponseStops =>
        /\ RunOver
        /\ Len(calls) = 1
        /\ toolLog = <<>>
        /\ Answered => sources = <<>>

\* The texts carried by the text blocks of a reply.
TextsOf(reply) ==
    {reply.content[p].text : p \in {q \in 1..Len(reply.content) : HasText(reply.content[q])}}

\* The n-th call is an in-loop call that the provider answered with a stop
\* condition other than tool-use.
LoopReplyStops(n) ==
    /\ n <= Len(replies)
    /\ ~calls[n].final
    /\ ~replies[n].raised
    /\ replies[n].stop_reason # "tool_use"

\* C6: in any round, a response whose stop condition is not tool-use makes the
\* run return the text of that response and end: no tool is executed for it
\* and no LLM call follows it.
C6_StopReturnsText ==
    \A n \in 1..(MaxCap + 1) :
        LoopReplyStops(n) =>
            /\ RunOver
            /\ Len(calls) = n
            /\ RoundLog(n) = <<>>
            /\ outcome = "returned"
            /\ answer \in TextsOf(replies[n])

\* The calls made by _make_final_response.
FinalCalls == {n \in 1..Len(calls) : calls[n].final}

\* What C7 says apart from the returned answer: the final call comes only
\* after the cap is exhausted, at most once, nothing follows it, and a run that
\* exhausts the cap makes it.
FinalCallIsLast ==
    /\ Cardinality(FinalCalls) <= 1
    /\ \A n \in FinalCalls :
        /\ n = cap + 1
        /\ n = Len(calls)
        /\ RunOver
        /\ \A i \in 1..Len(toolLog) : toolLog[i].llm < n
    /\ (RunOver /\ EveryRoundToolUse) => Cardinality(FinalCalls) = 1

\* C7 as stated: the forced final call is made exactly once, nothing follows
\* it whatever stop condition its response carries, and the text of its
\* response is the returned answer.
C7_FinalCallText ==
    /\ FinalCallIsLast
    /\ \A n \in FinalCalls :
        ~replies[n].raised =>
            outcome = "returned" /\ answer \in TextsOf(replies[n])

\* C7 amended: as above, but the returned answer is the text of the first
\* content block when that block is a text block, and otherwise the diagnostic
\* string "Error generating final response: ..." of the except clause.
C7_FinalCallAnswer ==
    /\ FinalCallIsLast
    /\ \A n \in FinalCalls :
        ~replies[n].raised =>
            /\ outcome = "returned"
            /\ IF FirstTextReadable(replies[n])
               THEN answer = replies[n].content[1].text
               ELSE answer \in {FinalErrorPrefix \o IndexErrorText,
                                FinalErrorPrefix \o AttributeErrorText}

\* The final call of a full-length run was answered with a tool-use stop whose
\* first block is text and a later block a tool request: the text is returned.
C7_Witness ==
    /\ pc = "done" /\ cap = MaxCap /\ FinalCalls = {cap + 1}
    /\ replies[cap + 1].stop_reason = "tool_use"
    /\ Len(replies[cap + 1].content) > 1
    /\ answer = replies[cap + 1].content[1].text

\* The tool-use blocks of a content, in the order the model listed them.
ToolUses(content) == SelectSeq(content, LAMBDA b : b.type = "tool_use")

\* C8: within a round the requested tool calls are executed one after the
\* other in the order the model listed them, no LLM call is issued between the
\* response and any of them, and all of them are done when the next LLM call
\* is issued.
C8_ToolsInOrderBeforeNextCall ==
    /\ \A i, j \in 1..Len(toolLog) :
        (i < j /\ toolLog[i].round = toolLog[j].round) =>
            toolLog[i].pos < toolLog[j].pos
    /\ \A i \in 1..Len(toolLog) :
        /\ toolLog[i].llm = toolLog[i].round
        /\ toolLog[i].id = replies[toolLog[i].round].content[toolLog[i].pos].id
    /\ \A n \in 2..Len(calls) :
        /\ Len(RoundLog(n - 1)) = Len(ToolUses(replies[n - 1].content))
        /\ \A i \in 1..Len(RoundLog(n - 1)) :
            /\ RoundLog(n - 1)[i].id = ToolUses(replies[n - 1].content)[i].id
            /\ RoundLog(n - 1)[i].name = ToolUses(replies[n - 1].content)[i].name

\* A round with two tool calls has been followed by the next LLM call.
C8_Witness ==
    /\ Len(calls) >= 2
    /\ Len(ToolUses(replies[1].content)) = 2
    /\ Len(RoundLog(1)) = 2

\* C9: the tool-result turn appended after a successful round holds exactly
\* one ToolResult per tool-use block of the model's response, in the same
\* order; the i-th carries the call id of the i-th tool-use block and the
\* string that call returned.
C9_ResultsMatchBlocks ==
    \A r \in 1..MaxCap :
        2 * r + 1 <= Len(messages) =>
            LET uses == ToolUses(messages[2 * r].content)
                turn == messages[2 * r + 1]
            IN  /\ turn.role = "user"
                /\ Len(turn.content) = Len(uses)
                /\ Len(RoundLog(r)) = Len(uses)
                /\ \A i \in 1..Len(uses) :
                    /\ turn.content[i].type = "tool_result"
                    /\ turn.content[i].tool_use_id = uses[i].id
                    /\ RoundLog(r)[i].id = uses[i].id
                    /\ turn.content[i].content = RoundLog(r)[i].result

\* A tool-result turn with two results, for a search call and an outline call.
C9_Witness ==
    /\ Len(messages) >= 3
    /\ Len(messages[3].content) = 2
    /\ messages[3].content[1].content # messages[3].content[2].content

IsStrictPrefix(s, t) ==
    /\ Len(s) < Len(t)
    /\ \A i \in 1..Len(s) : s[i] = t[i]

\* C10: within a run the conversation only grows by appending: the
\* conversation of each LLM call has the conversation of the previous call as
\* a strict prefix, and the current conversation still begins with the
\* conversation of the last call.
C10_ConversationGrows ==
    /\ \A n \in 1..(Len(calls) - 1) :
        IsStrictPrefix(calls[n].messages, calls[n + 1].messages)
    /\ Len(calls) > 0 =>
        /\ Len(calls[Len(calls)].messages) <= Len(messages)
        /\ \A i \in 1..Len(calls[Len(calls)].messages) :
            calls[Len(calls)].messages[i] = messages[i]

C10_Witness == Len(calls) = MaxCap + 1 /\ MaxCap >= 2

\* C11: the conversation passed to the n-th LLM call of a run (the forced
\* final call included) has exactly 2n-1 turns: the first is the user turn
\* holding the raw query, the roles alternate user, assistant, user, and the
\* last turn is a user turn; the even turns hold the model's blocks and the
\* later odd turns hold tool results.
C11_TurnsAlternate ==
    \A n \in 1..Len(calls) :
        LET msgs == calls[n].messages
        IN  /\ Len(msgs) = 2 * n - 1
            /\ msgs[1].role = "user"
            /\ msgs[1].content = Query
            /\ \A i \in 1..Len(msgs) :
                msgs[i].role = (IF i % 2 = 1 THEN "user" ELSE "assistant")
            /\ msgs[Len(msgs)].role = "user"
            /\ \A i \in 2..Len(msgs) :
                /\ Len(msgs[i].content) > 0
                /\ \A j \in 1..Len(msgs[i].content) :
                    IF i % 2 = 0
                    THEN msgs[i].content[j].type \in {"text", "tool_use"}
                    ELSE msgs[i].content[j].type = "tool_result"

\* The forced final call of a full-length run was given 2 * MaxCap + 1 turns.
C11_Witness ==
    /\ cap = MaxCap
    /\ FinalCalls = {MaxCap + 1}
    /\ Len(calls[MaxCap + 1].messages) = 2 * MaxCap + 1

\* The in-loop LLM calls made so far.
LoopCalls == {n \in 1..Len(calls) : ~calls[n].final}

\* C12 as stated: whenever a tool manager is supplied, every in-loop LLM call
\* carries the tool menu with selection mode auto.
C12_MenuWhenManager ==
    tool_manager =>
        \A n \in LoopCalls :
            calls[n].tools /\ calls[n].tool_choice = "auto"

\* C12 amended: the menu follows the `tools` argument, not the tool manager:
\* every in-loop call carries the menu with selection mode auto when a
\* non-empty menu was passed, and neither menu nor selection mode otherwise;
\* no call ever carries a selection mode other than auto.
C12_MenuWhenTools ==
    /\ \A n \in LoopCalls :
        /\ calls[n].tools = tools
        /\ calls[n].tool_choice = (IF tools THEN "auto" ELSE NoValue)
    /\ \A n \in 1..Len(calls) : calls[n].tool_choice \in {"auto", NoValue}

\* With a tool manager and a menu, all MaxCap in-loop calls have been made.
C12_Witness ==
    /\ tool_manager /\ tools /\ cap = MaxCap
    /\ Cardinality(LoopCalls) = MaxCap
    /\ \A n \in LoopCalls : calls[n].tool_choice = "auto"

\* The n-th call is an in-loop call of a run without tool manager that the
\* provider answered with a tool-use stop.
ToolUseWithoutManager(n) ==
    /\ n <= Len(replies)
    /\ ~tool_manager
    /\ ~calls[n].final
    /\ ~replies[n].raised
    /\ replies[n].stop_reason = "tool_use"

\* C13: when the response requests tool use and no tool manager was supplied,
\* the run ends after that single LLM call: it returns a string, executes no
\* tool, makes no further LLM call and does not raise, whatever block comes
\* first in the response.
C13_DegradedMode ==
    \A n \in 1..(MaxCap + 1) :
        ToolUseWithoutManager(n) =>
            /\ RunOver
            /\ n = 1
            /\ Len(calls) = 1
            /\ toolLog = <<>>
            /\ outcome = "returned"
            /\ answer # NoValue

\* Round r is a tool-use round of a run with a tool manager.
ToolRound(r) ==
    /\ r <= Len(replies)
    /\ tool_manager
    /\ ~calls[r].final
    /\ ~replies[r].raised
    /\ replies[r].stop_reason = "tool_use"

\* Some tool call of round r raised.
RoundRaised(r) == \E i \in 1..Len(RoundLog(r)) : RoundLog(r)[i].raised

\* Tool execution in round r produces no result: the response holds no
\* tool-use block, or a tool call raised.
RoundYieldsNothing(r) ==
    /\ ToolRound(r)
    /\ ToolUseCount(replies[r].content) = 0 \/ RoundRaised(r)

\* C14: when tool execution in a round produces no result, the run returns
\* "Tool execution failed", no tool-result turn is appended (the conversation
\* ends with the assistant turn of that round) and no LLM call follows.
C14_NoResultsAbort ==
    \A r \in 1..MaxCap :
        RoundYieldsNothing(r) =>
            /\ Len(calls) = r
            /\ Len(messages) = 2 * r
            /\ messages[2 * r].role = "assistant"
            /\ \/ pc = "executing"
               \/ /\ RunOver
                  /\ outcome = "returned"
                  /\ answer = "Tool execution failed"

\* The second round of a run produced no result and the run has ended.
C14_Witness ==
    /\ pc = "done" /\ RoundYieldsNothing(2)
    /\ answer = "Tool execution failed"

\* The call ids of the tool calls dispatched in round r.
RoundIds(r) == {RoundLog(r)[i].id : i \in 1..Len(RoundLog(r))}

\* The call ids answered by the tool-result turns of a conversation.
ForwardedIds(msgs) ==
    UNION {{msgs[i].content[j].tool_use_id : j \in 1..Len(msgs[i].content)} :
           i \in {k \in 2..Len(msgs) : msgs[k].role = "user"}}

\* C15: when a tool call of a round raises, the round is aborted: the raising
\* call is the last one dispatched, the results collected so far in that round
\* are dropped and are never part of the conversation or of any LLM call, the
\* run does not raise, and it returns the generic failure string.
C15_RaiseAbortsRound ==
    \A r \in 1..MaxCap :
        (ToolRound(r) /\ RoundRaised(r)) =>
            /\ \A i \in 1..Len(RoundLog(r)) :
                RoundLog(r)[i].raised <=> i = Len(RoundLog(r))
            /\ tool_results = <<>>
            /\ ForwardedIds(messages) \cap RoundIds(r) = {}
            /\ \A n \in 1..Len(calls) :
                ForwardedIds(calls[n].messages) \cap RoundIds(r) = {}
            /\ Len(calls) = r
            /\ outcome # "raised"
            /\ pc # "executing" =>
                /\ RunOver
                /\ outcome = "returned"
                /\ answer = ToolFailed

\* A round whose first tool call succeeded and whose second raised has ended
\* the run.
C15_Witness ==
    /\ pc = "done" /\ ToolRound(1) /\ RoundRaised(1)
    /\ Len(RoundLog(1)) = 2
    /\ ~RoundLog(1)[1].raised
    /\ answer = ToolFailed

\* The LLM calls on which the provider raised.
RaisedCalls == {n \in 1..Len(replies) : replies[n].raised}

\* C16 as stated: an error raised by the provider during any LLM call, in the
\* loop or the forced final one, ends the run by propagating to the caller and
\* never becomes a returned answer.
C16_ProviderErrorPropagates ==
    \A n \in RaisedCalls :
        /\ RunOver
        /\ Len(calls) = n
        /\ outcome = "raised"
        /\ answer = NoValue

\* C16 amended: an error raised during an in-loop call propagates to the
\* caller and no answer is returned; an error raised during the forced final
\* call is caught and the run returns the diagnostic string "Error generating
\* final response: <error>".  Either way no LLM call follows.
C16_LoopErrorPropagates ==
    \A n \in RaisedCalls :
        /\ RunOver
        /\ Len(calls) = n
        /\ IF calls[n].final
           THEN /\ outcome = "returned"
                /\ answer = "Error generating final response: " \o ProviderErrorText
           ELSE /\ outcome = "raised"
                /\ answer = NoValue

\* The provider raised on the second in-loop call, after one tool round.
C16_Witness ==
    /\ pc = "done" /\ RaisedCalls = {2}
    /\ ~calls[2].final
    /\ outcome = "raised"

\* C17: provided no LLM call raises, every run that has ended has returned a
\* string to the caller and has not raised, whatever the responses and the
\* tool outcomes were.
C17_AlwaysReturnsString ==
    (RunOver /\ RaisedCalls = {}) =>
        /\ outcome = "returned"
        /\ answer # NoValue

\* Round r has been executed to its end without a raise and one of its calls
\* named a tool that is not registered.
RoundWithUnknownTool(r) ==
    /\ RoundYielded(r)
    /\ ~(pc = "executing" /\ round_num = r - 1)
    /\ \E i \in 1..Len(RoundLog(r)) : RoundLog(r)[i].name \notin RegisteredNames

\* C18: a call to a tool that is not registered does not raise; the
\* registry's "not found" string is the content of the ToolResult carrying that
\* call's id in the tool-result turn, the round counts as completed, and the
\* run cannot end without the next LLM call, which is given that turn.
C18_UnknownToolIsOrdinaryResult ==
    /\ \A i \in 1..Len(toolLog) :
        toolLog[i].name \notin RegisteredNames =>
            /\ ~toolLog[i].raised
            /\ toolLog[i].result = "Tool '" \o toolLog[i].name \o "' not found"
    /\ \A r \in 1..MaxCap :
        RoundWithUnknownTool(r) =>
            /\ round_num >= r
            /\ Len(messages) >= 2 * r + 1
            /\ Len(messages[2 * r + 1].content) = Len(RoundLog(r))
            /\ \A i \in 1..Len(RoundLog(r)) :
                RoundLog(r)[i].name \notin RegisteredNames =>
                    messages[2 * r + 1].content[i] =
                        [type |-> "tool_result",
                         tool_use_id |-> RoundLog(r)[i].id,
                         content |-> ToolNotFound(RoundLog(r)[i].name)]
            /\ RunOver =>
                /\ Len(calls) >= r + 1
                /\ calls[r + 1].messages[2 * r + 1] = messages[2 * r + 1]

\* The second LLM call was given the "not found" answer of the first round.
C18_Witness ==
    /\ Len(calls) >= 2
    /\ RoundWithUnknownTool(1)
    /\ toolLog[1].name = UnknownTool
    /\ calls[2].messages[3].content[1].content = ToolNotFound(UnknownTool)

\* This step dispatches a call to a tool name that is not registered.
DispatchesUnknown ==
    /\ Len(toolLog') = Len(toolLog) + 1
    /\ toolLog'[Len(toolLog')].name \notin RegisteredNames

\* C19: dispatching a name that is not registered returns the string
\* "Tool '<name>' not found", which mentions the name and "not found"; the
\* call does not raise and the source slot of every tool is left as it was.
C19_UnknownNameNotFound ==
    [][DispatchesUnknown =>
        /\ ~toolLog'[Len(toolLog')].raised
        /\ toolLog'[Len(toolLog')].result =
               "Tool '" \o toolLog'[Len(toolLog')].name \o "' not found"
        /\ last_sources' = last_sources]_vars

\* An unregistered name was dispatched while the search tool's slot held the
\* sources of an earlier search, and the slot still holds them.
C19_Witness ==
    /\ Len(toolLog) = 2
    /\ toolLog[2].name = UnknownTool
    /\ toolLog[2].result = ToolNotFound(UnknownTool)
    /\ last_sources[SearchTool] = SearchHitSources

\* The last query was answered and the caller has drained and reset the
\* registry's sources; no other query has been started since.
Drained == pc = "idle" /\ runs > 0 /\ outcome = "returned" /\ tool_manager

\* The current query has not called the content-search tool.
NoRetrieval == \A i \in 1..Len(toolLog) : toolLog[i].name # SearchTool

\* C20: once a query has been answered and its sources drained and reset, the
\* next query on the same registry, if it is answered without any retrieval,
\* returns an empty source list, whatever tools the earlier query ran.
C20_NoAccumulation ==
    \A n \in 1..(MaxRuns - 1) :
        []((Drained /\ runs = n) =>
            []((runs = n + 1 /\ Answered /\ NoRetrieval) => sources = <<>>))

\* The second query on a registry was answered after calling the outline tool
\* only, and its source list is empty.
C20_Witness ==
    /\ runs = 2 /\ Answered /\ tool_manager
    /\ toolLog # <<>> /\ NoRetrieval
    /\ sources = <<>>

\* The last step was a content search that returned (it did not raise).
Searched == last_call.kind = "search" /\ ~last_call.raised

\* C21: after every execution of a tool - snippets found, zero matches or a
\* provider error - the tool's slot holds one source per snippet of that
\* execution, in order, and nothing else: it is empty when the execution
\* produced none, whatever the slot held before.  The outline tool's slot is
\* always empty.
C21_SlotOverwritten ==
    /\ Searched =>
        LET ms == last_call.outcome.matches
            slot == last_sources[SearchTool]
        IN  /\ Len(slot) = Len(ms)
            /\ \A i \in 1..Len(ms) : slot[i] = Render(SourceOf(ms[i]))
            /\ last_call.outcome.error # NoValue => slot = <<>>
    /\ last_call.kind = "outline" => last_sources[OutlineTool] = <<>>

\* A search that met a provider error was executed while the slot held the
\* sources of an earlier search, and the slot is empty now.
C21_Witness ==
    /\ Searched
    /\ last_call.filled
    /\ last_call.outcome.error # NoValue
    /\ last_sources[SearchTool] = <<>>

\* C22: a tool's execute never raises to its caller: whatever the argument
\* mapping and whatever the retrieval provider answers, the call returns a
\* string.
C22_ExecuteNeverRaises ==
    last_call.kind \in {"search", "outline"} =>
        /\ ~last_call.raised
        /\ last_call.result # <<>>

HistorySection(h) == "\n\nPrevious conversation:\n" \o h

\* C25: every LLM call of a run, in the loop or the forced final one, is given
\* the same system text; when a (non-empty) summary was passed that text is
\* the static prompt followed by the "Previous conversation" section holding
\* the summary, and otherwise (no summary, or an empty one) it is the static
\* prompt alone.
C25_SystemInstructions ==
    \A n \in 1..Len(calls) :
        /\ calls[n].system = calls[1].system
        /\ IF conversation_history \in {NoValue, ""}
           THEN calls[n].system = SYSTEM_PROMPT
           ELSE /\ calls[n].system =
                      SYSTEM_PROMPT \o HistorySection(conversation_history)
                /\ calls[n].system # SYSTEM_PROMPT

\* A run with a summary has made all its in-loop calls and the final call.
C25_Witness ==
    /\ conversation_history = Summary
    /\ cap = MaxCap
    /\ FinalCalls = {MaxCap + 1}
    /\ calls[MaxCap + 1].system = SYSTEM_PROMPT \o HistorySection(Summary)

\* The segments of a string, as a set.
Segments(segs) == {segs[i] : i \in 1..Len(segs)}

\* C26: when the retrieval provider reports an error for a content search,
\* the string the tool returns is that error text and nothing else - no
\* snippet block is formatted - and the tool's slot holds no source.
C26_ProviderErrorVerbatim ==
    (Searched /\ last_call.outcome.error # NoValue) =>
        /\ Render(last_call.result) = last_call.outcome.error
        /\ "[" \notin Segments(last_call.result)
        /\ last_sources[SearchTool] = <<>>

\* A search with a course filter met a provider error.
C26_Witness ==
    /\ Searched
    /\ last_call.args.course_name = OtherCourse
    /\ last_call.outcome.error = ProviderError
    /\ Render(last_call.result) = ProviderError

RECURSIVE SplitBlocks(_)
SplitBlocks(segs) ==
    LET seps == {i \in 1..Len(segs) : segs[i] = "\n\n"} IN
    IF seps = {} THEN <<segs>>
    ELSE <<SubSeq(segs, 1, Min(seps) - 1)>>
         \o SplitBlocks(SubSeq(segs, Min(seps) + 1, Len(segs)))

StartsWith(segs, prefix) ==
    /\ Len(segs) >= Len(prefix)
    /\ SubSeq(segs, 1, Len(prefix)) = prefix

\* A content search that formatted the snippets the provider returned.
SearchedWithMatches ==
    /\ Searched
    /\ last_call.outcome.error = NoValue
    /\ last_call.outcome.matches # <<>>

\* C28: in a content-search result there is one block per match, in order;
\* the block of a match with lesson number n starts with
\* "[<course> - Lesson n]", and the block of a match without a lesson number
\* starts with "[<course>]" and has no lesson segment anywhere.
C28_BlockHeaders ==
    SearchedWithMatches =>
        LET ms == last_call.outcome.matches
            blocks == SplitBlocks(last_call.result)
        IN  /\ Len(blocks) = Len(ms)
            /\ \A i \in 1..Len(ms) :
                IF ms[i].lesson # NoLesson
                THEN StartsWith(blocks[i],
                        <<"[", ms[i].course, " - Lesson ",
                          ToString(ms[i].lesson), "]">>)
                ELSE /\ StartsWith(blocks[i], <<"[", ms[i].course, "]">>)
                     /\ " - Lesson " \notin Segments(blocks[i])

\* A search returned a lesson-1 snippet followed by one without a lesson.
C28_Witness ==
    /\ SearchedWithMatches
    /\ Len(last_call.outcome.matches) = 2
    /\ last_call.outcome.matches[1].lesson = 1
    /\ last_call.outcome.matches[2].lesson = NoLesson
    /\ Render(last_call.result) = "[MCP - Lesson 1]\nsnippet\n\n[MCP]\nsnippet"


\* A content search for which the provider found nothing and reported no error.
SearchedWithoutMatches ==
    /\ Searched
    /\ last_call.outcome.error = NoValue
    /\ last_call.outcome.matches = <<>>

\* C29: when the provider returns no match and no error, the result is the
\* "no content found" message; it names the course filter exactly when one
\* was supplied and the lesson filter exactly when one was supplied, and the
\* tool's source slot is empty afterwards.
C29_NoContentEchoesFilters ==
    SearchedWithoutMatches =>
        LET args == last_call.args
            said == Segments(last_call.result)
        IN  /\ StartsWith(last_call.result, <<"No relevant content found">>)
            /\ (args.course_name # NoValue) <=> (" in course '" \in said)
            /\ (args.course_name # NoValue) => args.course_name \in said
            /\ (args.lesson_number # NoLesson) <=> (" in lesson " \in said)
            /\ (args.lesson_number # NoLesson) =>
                    ToString(args.lesson_number) \in said
            /\ last_sources[SearchTool] = <<>>

\* A search with both filters found nothing while the slot held the sources
\* of an earlier search.
C29_Witness ==
    /\ SearchedWithoutMatches
    /\ last_call.args.course_name = OtherCourse
    /\ last_call.args.lesson_number = 5
    /\ last_call.filled
    /\ Render(last_call.result) =
        "No relevant content found in course 'Nonexistent Course' in lesson 5."


\* The results of round r were appended to the conversation.
RoundForwarded(r) == 2 * r + 1 <= Len(messages)

\* C30: every dispatch to the tool manager carries the tool name and the
\* argument mapping of the tool-use block it was made for, unchanged, and a
\* round whose results are forwarded made exactly one dispatch per tool-use
\* block of the model's response.
C30_DispatchMatchesBlock ==
    /\ \A i \in 1..Len(toolLog) :
        LET block == replies[toolLog[i].round].content[toolLog[i].pos] IN
        /\ block.type = "tool_use"
        /\ toolLog[i].name = block.name
        /\ toolLog[i].input = block.input
    /\ \A r \in 1..MaxCap :
        RoundForwarded(r) =>
            Len(RoundLog(r)) = ToolUseCount(replies[r].content)

\* A forwarded round dispatched two calls, to different tools with different
\* arguments.
C30_Witness ==
    /\ RoundForwarded(1)
    /\ Len(RoundLog(1)) = 2
    /\ RoundLog(1)[1].name = OutlineTool
    /\ RoundLog(1)[2].name = SearchTool
    /\ RoundLog(1)[1].input # RoundLog(1)[2].input

\* The sources query q should be answered with: those of its own last content
\* search, none when it made no search.
OwnSources(q) ==
    IF queries[q].executed > 0 THEN QuerySources(q) ELSE <<>>

HasDrained(q) == queries[q].pc \in {"drained", "done"}

\* C31: when the queries on one registry are served strictly one after the
\* other, each with its drain and reset, every query is handed exactly its own
\* sources: none recorded by the other query, and none of its own missing.
\* (Without serialization the opposite is reachable: C31_Witness.)
C31_SerializedQueriesKeepTheirSources ==
    serialized =>
        \A q \in Queries : HasDrained(q) => queries[q].drained = OwnSources(q)

\* Interleaved without serialization: query 1 searched, then query 2 searched,
\* and query 1 was handed the source recorded for query 2.
C31_Witness ==
    /\ ~serialized
    /\ HasDrained(1)
    /\ queries[1].executed > 0
    /\ queries[2].executed > 0
    /\ queries[1].drained = QuerySources(2)

\* The content-search executions of the current query, as positions of toolLog.
SearchCalls == {i \in 1..Len(toolLog) : toolLog[i].name = SearchTool}

\* C32: when the content-search tool was executed more than once during a
\* query, the source list drained at the end of the query holds the sources
\* of its last execution only: nothing of its earlier executions, and nothing
\* at all when the last execution produced no source.
C32_OnlyLastExecution ==
    (Drained /\ Cardinality(SearchCalls) >= 2) =>
        sources = IF toolLog[Max(SearchCalls)].raised
                  THEN <<>>
                  ELSE SearchHitSources

\* C33: an execution of the outline tool leaves every source slot as it was:
\* what a drain would return is the same before and after it, so the call
\* adds no source and removes none that a content search recorded earlier.
C33_OutlineLeavesSources ==
    [][last_call'.kind = "outline" =>
            /\ last_sources' = last_sources
            /\ drain_sources(last_sources') = drain_sources(last_sources)]_vars

\* The outline tool was executed while the slot of the content-search tool
\* held the sources of an earlier search, and they are still there.
C33_Witness ==
    /\ last_call.kind = "outline"
    /\ last_call.filled
    /\ last_sources[SearchTool] # <<>>
    /\ last_sources[OutlineTool] = <<>>

\* C34: tools are executed in at most cap rounds.  Every dispatch belongs to
\* a round 1..cap and answers the LLM call of that round; it precedes the
\* forced final call; and once cap rounds are completed, the final call has
\* been made or the run has returned or raised, no dispatch can follow.
C34_ToolsWithinCap ==
    /\ \A i \in 1..Len(toolLog) :
        /\ toolLog[i].round \in 1..cap
        /\ toolLog[i].llm = toolLog[i].round
        /\ \A n \in FinalCalls : toolLog[i].llm < n
    /\ (round_num >= cap \/ FinalCalls # {} \/ outcome # "none") =>
            ~ENABLED ExecuteTool

\* With cap 1, the response to the forced final call asks for a tool again;
\* the run is over and only the tool of round 1 was dispatched.
C34_Witness ==
    /\ pc = "done"
    /\ cap = 1
    /\ FinalCalls = {2}
    /\ ~replies[2].raised
    /\ replies[2].stop_reason = "tool_use"
    /\ ToolUseCount(replies[2].content) > 0
    /\ Len(toolLog) = 1

\* The n-th call is an in-loop call answered with the tool-use stop condition
\* by a response that holds no tool-use block, and a tool manager is present.
ToolUseWithoutBlocks(n) ==
    /\ n <= Len(replies)
    /\ ~calls[n].final
    /\ ~replies[n].raised
    /\ replies[n].stop_reason = "tool_use"
    /\ ToolUseCount(replies[n].content) = 0
    /\ tool_manager

\* C35: a response with the tool-use stop condition and no tool-use block,
\* with a tool manager present, ends the run with the answer "Tool execution
\* failed": no tool is dispatched for it, nothing is raised, and no LLM call
\* follows it.
C35_NoBlocksReportsToolFailure ==
    \A n \in 1..MaxCap :
        ToolUseWithoutBlocks(n) =>
            /\ Len(calls) = n
            /\ RoundLog(n) = <<>>
            /\ outcome # "raised"
            /\ \/ pc = "executing" /\ tool_results = <<>>
               \/ /\ RunOver
                  /\ outcome = "returned"
                  /\ answer = "Tool execution failed"

\* The run is over after a first response that asked for tools with a text
\* block only; the answer is the failure message and nothing was dispatched.
C35_Witness ==
    /\ pc = "done"
    /\ ToolUseWithoutBlocks(1)
    /\ Len(replies[1].content) > 0
    /\ answer = ToolFailed
    /\ toolLog = <<>>

\* The run is in round r or was ended by it, and the slots have not been
\* drained since.
RoundNotDrained(r) ==
    /\ pc \in {"executing", "done"}
    /\ round_num + 1 = r

\* C36: when the j-th tool call of a round raises, the calls before it were
\* executed, one per tool-use block and in order, and none of them raised; no
\* call of the round comes after the j-th; and what the earlier calls wrote
\* into the source slots is still there after the abort.
C36_PartialRound ==
    \A r \in 1..MaxCap :
        LET log == RoundLog(r)
            uses == ToolUses(replies[r].content)
        IN  \A j \in 1..Len(log) :
                log[j].raised =>
                    /\ Len(log) = j
                    /\ j <= Len(uses)
                    /\ \A k \in 1..j : log[k].id = uses[k].id
                    /\ \A k \in 1..(j - 1) : ~log[k].raised
                    /\ (/\ RoundNotDrained(r)
                        /\ \E k \in 1..(j - 1) :
                            log[k].name = SearchTool) =>
                                last_sources[SearchTool] = SearchHitSources

\* The second call of round 1 raised after a content search had recorded its
\* sources; the run has ended and the sources are still in the slot.
C36_Witness ==
    /\ pc = "done"
    /\ round_num = 0
    /\ Len(RoundLog(1)) = 2
    /\ RoundLog(1)[1].name = SearchTool
    /\ ~RoundLog(1)[1].raised
    /\ RoundLog(1)[2].raised
    /\ answer = ToolFailed
    /\ last_sources[SearchTool] = SearchHitSources

\* The answer is a diagnostic of _make_final_response: it begins with
\* "Error generating final response:" and goes on with the error's text.
IsFinalDiagnostic(a) ==
    \E e \in {ProviderErrorText, IndexErrorText, AttributeErrorText} :
        a = "Error generating final response: " \o e

\* C37: when the forced final LLM call raises, the run does not raise but
\* returns a string that begins "Error generating final response:"; when an
\* in-loop LLM call raises, the run raises and returns nothing.
C37_FinalCallErrorIsCaught ==
    /\ \A n \in RaisedCalls \cap FinalCalls :
        /\ outcome = "returned"
        /\ IsFinalDiagnostic(answer)
    /\ \A n \in RaisedCalls \ FinalCalls :
        /\ outcome = "raised"
        /\ ~IsFinalDiagnostic(answer)

\* After two tool rounds the forced final call raised, and the run returned
\* the diagnostic.
C37_Witness ==
    /\ pc = "done"
    /\ cap = 2
    /\ Len(calls) = 3
    /\ RaisedCalls = {3}
    /\ FinalCalls = {3}
    /\ outcome = "returned"
    /\ answer = "Error generating final response: provider error"

\* C38: with a round cap of 0 or less the loop is skipped.  At most one LLM
\* call is made and a finished run has made exactly one; that call is the
\* final one, carries neither a tool menu nor a tool choice even when tools
\* and a tool manager were supplied, and its conversation is the single user
\* turn; no tool is ever executed.
C38_NoRoundsWithoutCap ==
    (cap <= 0 /\ runs > 0) =>
        /\ Len(calls) <= 1
        /\ RunOver => Len(calls) = 1
        /\ \A n \in 1..Len(calls) :
            /\ calls[n].final
            /\ calls[n].tools = FALSE
            /\ calls[n].tool_choice = NoValue
            /\ calls[n].messages = <<UserTurn(Query)>>
        /\ toolLog = <<>>
        /\ round_num = 0
        /\ pc # "executing"

\* A run with a negative cap, tools and a tool manager has ended after one
\* call, although the response asked for a tool.
C38_Witness ==
    /\ pc = "done"
    /\ cap < 0
    /\ tools
    /\ tool_manager
    /\ Len(calls) = 1
    /\ replies[1].stop_reason = "tool_use"
    /\ ToolUseCount(replies[1].content) > 0
    /\ outcome = "returned"

\* C39: throughout every run the generator keeps the model and the base
\* parameters it was constructed with, the tool menu sent with each in-loop
\* call is the one the caller passed, and every LLM call carries the
\* configured model id, temperature 0 and max_tokens 800.
C39_GeneratorUnchanged ==
    /\ generator.model = "claude-sonnet-4-20250514"
    /\ generator.base_params =
        [model |-> "claude-sonnet-4-20250514", temperature |-> 0,
         max_tokens |-> 800]
    /\ \A n \in 1..Len(calls) :
        /\ calls[n].model = "claude-sonnet-4-20250514"
        /\ calls[n].temperature = 0
        /\ calls[n].max_tokens = 800
        /\ ~calls[n].final => calls[n].tools = tools

\* The second query on the same generator has made three calls with a tool
\* menu and has ended.
C39_Witness ==
    /\ runs = 2
    /\ pc = "done"
    /\ tools
    /\ Len(calls) = 3
    /\ Len(toolLog) = 2

\* The handler has been entered; the response it was given is the content of
\* the assistant turn it appended.
LegacyEntered == runs > 0 /\ caller_params # NoCallerParams

\* C40: the legacy handler executes the tools of the given response once, in
\* one round.  When that produced results it makes exactly one LLM call,
\* without tool menu, on the caller's messages followed by the assistant turn
\* and the tool-result turn; when it produced none it makes no LLM call and
\* returns "Tool execution failed".  The caller's base_params["messages"] is
\* the same list as before in both cases.
C40_LegacyHandler ==
    LegacyEntered =>
        LET given == messages[2].content IN
        /\ caller_params.messages = <<UserTurn(Query)>>
        /\ messages[1] = UserTurn(Query)
        /\ messages[2].role = "assistant"
        /\ Len(toolLog) <= ToolUseCount(given)
        /\ \A i \in 1..Len(toolLog) :
            /\ toolLog[i].round = 1
            /\ toolLog[i].id = ToolUses(given)[i].id
        /\ Len(calls) <= 1
        /\ \A n \in 1..Len(calls) :
            /\ calls[n].tools = FALSE
            /\ calls[n].tool_choice = NoValue
            /\ calls[n].system = caller_params.system
            /\ calls[n].messages =
                caller_params.messages
                \o <<AssistantTurn(given), UserTurn(tool_results)>>
            /\ tool_results # <<>>
            /\ Len(toolLog) = ToolUseCount(given)
        /\ pc = "done" =>
            IF tool_results = <<>>
            THEN calls = <<>> /\ outcome = "returned"
                 /\ answer = "Tool execution failed"
            ELSE Len(calls) = 1 /\ outcome = "returned"

\* The handler executed two tools and made its one call on three turns, and
\* the caller's list still holds the single user turn.
C40_Witness ==
    /\ LegacyEntered
    /\ pc = "done"
    /\ Len(toolLog) = 2
    /\ Len(calls) = 1
    /\ Len(calls[1].messages) = 3
    /\ Len(caller_params.messages) = 1

==========================================================================
